---- MODULE Spec2Model ----
(***************************************************************************)
(* Model of slm_conv (src/src/main.rs): one run of main().  The run loads  *)
(* the optional input SLM file into the sparse memory map (mem_from_file), *)
(* reads the numeric arguments, rewrites the filename template, and then   *)
(* writes one output file per (serial, parallel) bank.                     *)
(*                                                                         *)
(* Text is modelled as sequences of one-character strings, so that         *)
(* splitting, prefix trimming, hexadecimal parsing, byte swapping and      *)
(* template resolution are computed the way the code computes them.        *)
(***************************************************************************)
EXTENDS Integers, Sequences, FiniteSets, TLC

VARIABLES
    cli,        \* the command line (clap matches): constant during a run
    pc,         \* position of main(): start, read, args, loop, rows, done, abort
    err,        \* why the run aborted ("none" while it has not)
    opened,     \* TRUE once File::open succeeded on the input file
    lineNo,     \* 1-based number of the next input line of the lines() loop
    mem,        \* the HashMap<usize, String> under construction / returned
    format,     \* the rewritten format string (line 240), <<>> before setup
    i_ser,      \* loop variables of the output loop
    i_par,
    i_word,
    created,    \* log of File::create calls: [bank, name, lines written]
    resolved    \* banks whose file name has been produced by format.format

vars == <<cli, pc, err, opened, lineNo, mem, format, i_ser, i_par, i_word,
          created, resolved>>

----------------------------------------------------------------------------
(* Bounds of the model *)

MaxLines == 2
MaxRows == 2
MaxSerial == 2
MaxParallel == 2

----------------------------------------------------------------------------
(* Characters and numbers *)

LowerHex == <<"0","1","2","3","4","5","6","7","8","9","a","b","c","d","e","f">>
UpperHex == <<"0","1","2","3","4","5","6","7","8","9","A","B","C","D","E","F">>

IsHexChar(c) == \E i \in 1..16 : c = LowerHex[i] \/ c = UpperHex[i]

DigitOf(c) == (CHOOSE i \in 1..16 : c = LowerHex[i] \/ c = UpperHex[i]) - 1

ParseFailed == -1

RECURSIVE RadixValue(_)
RadixValue(s) ==
    IF s = <<>> THEN 0
    ELSE 16 * RadixValue(SubSeq(s, 1, Len(s) - 1)) + DigitOf(s[Len(s)])

\* usize::from_str_radix(s, 16): an error on the empty string and on any
\* character that is not a hexadecimal digit.
FromStrRadix16(s) ==
    IF s = <<>> \/ \E i \in 1..Len(s) : ~IsHexChar(s[i])
    THEN ParseFailed
    ELSE RadixValue(s)

RECURSIVE TrimStartMatches0x(_)
\* str::trim_start_matches("0x"): removes the prefix repeatedly.
TrimStartMatches0x(s) ==
    IF Len(s) >= 2 /\ s[1] = "0" /\ s[2] = "x"
    THEN TrimStartMatches0x(SubSeq(s, 3, Len(s)))
    ELSE s

RECURSIVE SplitFrom(_, _)
\* l.split(' '): the tokens between single spaces, empty tokens kept.
\* SplitFrom(l, tok) scans l with the current token tok.
SplitFrom(l, tok) ==
    IF l = <<>> THEN <<tok>>
    ELSE IF l[1] = " " THEN <<tok>> \o SplitFrom(Tail(l), <<>>)
    ELSE SplitFrom(Tail(l), Append(tok, l[1]))

Split(l) == SplitFrom(l, <<>>)

RECURSIVE HexDigitsOf(_)
HexDigitsOf(n) ==
    IF n < 16 THEN <<UpperHex[n + 1]>>
    ELSE Append(HexDigitsOf(n \div 16), UpperHex[(n % 16) + 1])

RECURSIVE DecDigitsOf(_)
DecDigitsOf(n) ==
    IF n < 10 THEN <<UpperHex[n + 1]>>
    ELSE Append(DecDigitsOf(n \div 10), UpperHex[(n % 10) + 1])

RECURSIVE ZeroPad(_, _)
ZeroPad(s, width) == IF Len(s) >= width THEN s ELSE ZeroPad(<<"0">> \o s, width)

\* format!("{:08X}", n)
Hex8(n) == ZeroPad(HexDigitsOf(n), 8)

IsDecDigit(c) == \E i \in 1..10 : c = UpperHex[i]

RECURSIVE DecValue(_)
DecValue(s) ==
    IF s = <<>> THEN 0
    ELSE 10 * DecValue(SubSeq(s, 1, Len(s) - 1)) + DigitOf(s[Len(s)])

----------------------------------------------------------------------------
(* mem_from_file: one input line *)

EmptyMem == [a \in {} |-> <<>>]

\* A variant of TokenAddr that takes an @index for a byte address.
TokenAddrUnscaled(tok) ==
    IF tok # <<>> /\ tok[1] = "@"
    THEN FromStrRadix16(Tail(tok))
    ELSE FromStrRadix16(TrimStartMatches0x(tok))

\* Lines 37-44: the byte address of the first token.  An @index is a word
\* index (address = index * 4); anything else is an address with optional
\* 0x prefix.  ParseFailed when from_str_radix(..).unwrap() panics.
TokenAddr(tok) ==
    IF tok # <<>> /\ tok[1] = "@"
    THEN LET idx == FromStrRadix16(Tail(tok))
         IN  IF idx = ParseFailed THEN ParseFailed ELSE idx * 4
    ELSE FromStrRadix16(TrimStartMatches0x(tok))

\* Line 35: the data word is the second token without its 0x prefix.
DataWord(v) == TrimStartMatches0x(v[2])

\* A variant of SwapBytes that reverses the whole string.
SwapBytesReversed(inp) == [k \in 1..8 |-> inp[9 - k]]

\* Lines 56-62: for i in 0..4 { push inp[6-2*i]; push inp[7-2*i] }
\* (0-based in the code, 1-based here).
SwapBytes(inp) ==
    [k \in 1..8 |->
        LET i == (k - 1) \div 2
        IN  IF (k - 1) % 2 = 0 THEN inp[7 - 2 * i] ELSE inp[8 - 2 * i]]

\* Lines 53-65
StoredData(data_word, swap_endianness) ==
    IF swap_endianness THEN SwapBytes(data_word) ELSE data_word

\* Lines 32-67 for one line against the map m: the outcome ("ok" or the
\* panic reached first, in program order) and the map afterwards.
\*   index     : v[1] out of bounds (fewer than two tokens), line 35
\*   parse     : from_str_radix(..).unwrap() on the address, lines 39/43
\*   length    : assert_eq!(data_word.len(), 8), line 51
\*   duplicate : assert_eq!(mem.insert(addr, data), None), line 67
ProcessLine(l, swap_endianness, m) ==
    LET v == Split(l)
    IN  IF Len(v) < 2 THEN [outcome |-> "index", mem |-> m]
        ELSE LET data_word == DataWord(v)
                 addr == TokenAddr(v[1])
             IN  IF addr = ParseFailed THEN [outcome |-> "parse", mem |-> m]
                 ELSE IF Len(data_word) # 8 THEN [outcome |-> "length", mem |-> m]
                 ELSE LET data == StoredData(data_word, swap_endianness)
                          inserted == [a \in DOMAIN m \cup {addr} |->
                                          IF a = addr THEN data ELSE m[a]]
                      IN  IF addr \in DOMAIN m
                          THEN [outcome |-> "duplicate", mem |-> inserted]
                          ELSE [outcome |-> "ok", mem |-> inserted]

----------------------------------------------------------------------------
(* Filename template *)

FmtError == <<"<format error>">>

RECURSIVE ReplaceBraces(_)
\* Line 241: .replace("{}", "{{}}")
ReplaceBraces(t) ==
    IF t = <<>> THEN <<>>
    ELSE IF Len(t) >= 2 /\ t[1] = "{" /\ t[2] = "}"
    THEN <<"{", "{", "}", "}">> \o ReplaceBraces(SubSeq(t, 3, Len(t)))
    ELSE <<t[1]>> \o ReplaceBraces(Tail(t))

RECURSIVE DigitRun(_, _)
\* Number of decimal digits of t starting at position i.
DigitRun(t, i) ==
    IF i <= Len(t) /\ IsDecDigit(t[i]) THEN 1 + DigitRun(t, i + 1) ELSE 0

\* Length of the match of  %(?P<n>0\d+)?(?P<f>[SP])  at the head of t, 0 when
\* there is none.  The optional group is greedy; giving digits back cannot
\* help, since the character after a shorter run is a digit, not S or P.
MatchLen(t) ==
    IF t = <<>> \/ t[1] # "%" THEN 0
    ELSE LET d == DigitRun(t, 3)
         IN  IF Len(t) >= 2 /\ t[2] = "0" /\ d >= 1
                /\ Len(t) >= 3 + d /\ t[3 + d] \in {"S", "P"}
             THEN 3 + d
             ELSE IF Len(t) >= 2 /\ t[2] \in {"S", "P"} THEN 2 ELSE 0

RECURSIVE RegexReplaceAll(_)
\* Lines 242-243: re.replace_all(&escaped, "{$f:$n}")
RegexReplaceAll(t) ==
    IF t = <<>> THEN <<>>
    ELSE LET k == MatchLen(t)
         IN  IF k = 0 THEN <<t[1]>> \o RegexReplaceAll(Tail(t))
             ELSE <<"{", t[k], ":">> \o SubSeq(t, 2, k - 1) \o <<"}">>
                  \o RegexReplaceAll(SubSeq(t, k + 1, Len(t)))

\* Lines 240-244
PrepareFormat(template) == RegexReplaceAll(ReplaceBraces(template))

\* Position of the first occurrence of c in t at or after i, 0 when none.
FirstAt(t, c, i) ==
    IF \E j \in i..Len(t) : t[j] = c
    THEN CHOOSE j \in i..Len(t) : t[j] = c /\ \A h \in i..(j - 1) : t[h] # c
    ELSE 0

\* One replacement field "key" or "key:spec" of strfmt with the variables
\* S = s and P = p: an unknown key or a spec other than 0<width> is an error.
FormatField(field, s, p) ==
    LET c == FirstAt(field, ":", 1)
        key == IF c = 0 THEN field ELSE SubSeq(field, 1, c - 1)
        spec == IF c = 0 THEN <<>> ELSE SubSeq(field, c + 1, Len(field))
        val == IF key = <<"S">> THEN s ELSE p
    IN  IF key \notin {<<"S">>, <<"P">>} THEN FmtError
        ELSE IF spec = <<>> THEN DecDigitsOf(val)
        ELSE IF spec[1] = "0" /\ \A i \in 1..Len(spec) : IsDecDigit(spec[i])
        THEN ZeroPad(DecDigitsOf(val), DecValue(Tail(spec)))
        ELSE FmtError

RECURSIVE Strfmt(_, _, _)
\* strfmt::Format::format(&vars): "{{" and "}}" are literal braces, "{..}" is
\* a replacement field; an unmatched brace is an error.
Strfmt(f, s, p) ==
    IF f = <<>> THEN <<>>
    ELSE IF Len(f) >= 2 /\ f[1] = f[2] /\ f[1] \in {"{", "}"}
    THEN LET rest == Strfmt(SubSeq(f, 3, Len(f)), s, p)
         IN  IF rest = FmtError THEN FmtError ELSE <<f[1]>> \o rest
    ELSE IF f[1] = "}" THEN FmtError
    ELSE IF f[1] = "{"
    THEN LET close == FirstAt(f, "}", 2)
         IN  IF close = 0 THEN FmtError
             ELSE LET out == FormatField(SubSeq(f, 2, close - 1), s, p)
                      rest == Strfmt(SubSeq(f, close + 1, Len(f)), s, p)
                  IN  IF out = FmtError \/ rest = FmtError THEN FmtError
                      ELSE out \o rest
    ELSE LET rest == Strfmt(Tail(f), s, p)
         IN  IF rest = FmtError THEN FmtError ELSE <<f[1]>> \o rest

\* A variant of BankName in which the first bank gets a fixed name, so that
\* the template is first used for the second bank.
BankNameLate(f, s, p) ==
    IF s = 0 /\ p = 0 THEN <<"0", "_", "0">> ELSE Strfmt(f, s, p)

\* Lines 270-273: vars = {S: i_ser, P: i_par}; format.format(&vars)
BankName(f, s, p) == Strfmt(f, s, p)

----------------------------------------------------------------------------
(* Interleaving *)

\* Lines 235-237
WordsPerLine(word_width) == (word_width \div 8) \div 4

WordsInParallel(word_width, n_parallel) == WordsPerLine(word_width) * n_parallel

\* A variant of Idx whose serial stride leaves out the row count.
IdxShortStride(s, p, w, n_rows, n_parallel, word_width) ==
    p * WordsPerLine(word_width)
    + WordsInParallel(word_width, n_parallel) * w
    + WordsInParallel(word_width, n_parallel) * s

\* Lines 276-277
Idx(s, p, w, n_rows, n_parallel, word_width) ==
    p * WordsPerLine(word_width)
    + WordsInParallel(word_width, n_parallel) * w
    + WordsInParallel(word_width, n_parallel) * n_rows * s

ZeroWord == <<"0","0","0","0","0","0","0","0">>

\* A variant of MemVal that takes the word index for a byte offset.
MemValUnscaled(m, start_addr, idx) ==
    LET addr == start_addr + idx
    IN  IF addr \in DOMAIN m THEN m[addr] ELSE ZeroWord

\* Lines 247-253
MemVal(m, start_addr, idx) ==
    LET addr == start_addr + idx * 4
    IN  IF addr \in DOMAIN m THEN m[addr] ELSE ZeroWord

RECURSIVE RowWordsAscending(_, _, _, _)
\* A variant of RowWords that writes the sub-words 0, 1, .., k-1.
RowWordsAscending(m, start_addr, idx, k) ==
    IF k = 0 THEN <<>>
    ELSE RowWordsAscending(m, start_addr, idx, k - 1) \o MemVal(m, start_addr, idx + (k - 1))

RECURSIVE RowWords(_, _, _, _)
\* Lines 280-282: for i_sw in (0..words_per_line).rev() { write mem_val(idx+i_sw) }
\* RowWords(.., k) writes the sub-words k-1, k-2, .., 0 in that order.
RowWords(m, start_addr, idx, k) ==
    IF k = 0 THEN <<>>
    ELSE MemVal(m, start_addr, idx + (k - 1)) \o RowWords(m, start_addr, idx, k - 1)

----------------------------------------------------------------------------
(* The inputs explored *)

Sp == <<" ">>
Px == <<"0", "x">>

WordA == <<"0","1","2","3","4","5","6","7">>
WordB == <<"8","9","A","B","C","D","E","F">>
WordC == <<"F","E","D","C","B","A","9","8">>
WordD == <<"7","6","5","4","3","2","1","0">>
WordE == <<"0","2","4","6","8","a","c","e">>

\* Well-formed lines: @index and address forms, data with and without 0x.
LineIdx0  == <<"@","0">> \o Sp \o WordA                  \* @0 01234567
LineIdx1  == <<"@","1">> \o Sp \o Px \o WordB            \* @1 0x89ABCDEF
LineAddr4 == Px \o <<"4">> \o Sp \o WordC                \* 0x4 FEDCBA98
LineAddr0 == <<"0">> \o Sp \o Px \o WordD                \* 0 0x76543210
LineIdx2  == <<"@","2">> \o Sp \o WordE                  \* @2 02468ace

\* Lines outside the input grammar.
LineShort    == <<"@","0">> \o Sp \o <<"1","2","3","4">>          \* @0 1234
LineLong     == <<"4">> \o Sp \o WordA \o <<"9">>                 \* 4 012345679
LineTwoPfx   == <<"@","1">> \o Sp \o Px \o Px \o WordA            \* @1 0x0x01234567
LineNonHex   == <<"@","2">> \o Sp \o <<"G","H","I","J","K","L","M","N">>
LineThreeTok == <<"8">> \o Sp \o WordB \o Sp \o <<"z">>           \* 8 89ABCDEF z
LineOneTok   == <<"@","3">>                                       \* @3
LineBadAddr  == <<"@","g">> \o Sp \o WordA                        \* @g 01234567

GoodLines == {LineIdx0, LineIdx1, LineAddr4, LineAddr0, LineIdx2}

Lines == GoodLines \cup {LineShort, LineLong, LineTwoPfx, LineNonHex,
                         LineThreeTok, LineOneTok, LineBadAddr}

SeqsUpTo(S, n) == UNION {[1..k -> S] : k \in 0..n}

NoInput == [given |-> FALSE, exists |-> FALSE, lines |-> <<>>]
MissingInput == [given |-> TRUE, exists |-> FALSE, lines |-> <<>>]
FileOf(ls) == [given |-> TRUE, exists |-> TRUE, lines |-> ls]

\* Filename templates
TDefault == <<"%","S","_","%","P">>                  \* %S_%P
TPadded  == <<"%","0","2","S","_","%","P">>          \* %02S_%P
TNoPar   == <<"b","%","S">>                          \* b%S
TBraces  == <<"{","}","%","S","-","%","P">>          \* {}%S-%P
TBadKey  == <<"%","S","%","P","{","x","}">>          \* %S%P{x}

Templates == {TDefault, TPadded, TNoPar, TBraces, TBadKey}

\* --start values: hexadecimal text with or without 0x, and one that is not.
StartTokens == {<<"0">>, Px \o <<"4">>, <<"z">>}

\* --word-width values
Widths == {32, 48, 64}

\* A count argument is modelled by its value; a negative value stands for
\* text that parse::<usize>() rejects.
Counts(max) == -1..max

\* Runs that explore the input file: every input of up to MaxLines lines,
\* converted to a single bank of up to MaxLines rows.
ParseRuns ==
    {[file |-> f, swap_endianness |-> sw, help |-> FALSE, preview |-> FALSE,
      n_rows |-> r, serial_banks |-> 1, parallel_banks |-> 1,
      start_addr |-> st, word_width |-> 32, template |-> TDefault] :
        f \in {FileOf(ls) : ls \in SeqsUpTo(Lines, MaxLines)},
        sw \in BOOLEAN, r \in 0..MaxLines, st \in {<<"0">>, Px \o <<"4">>}}

\* Runs that explore the geometry, the template and the flags.
GeometryRuns ==
    {[file |-> f, swap_endianness |-> FALSE, help |-> hp[1], preview |-> hp[2],
      n_rows |-> r, serial_banks |-> ns, parallel_banks |-> np,
      start_addr |-> st, word_width |-> w, template |-> t] :
        f \in {NoInput, MissingInput, FileOf(<<LineIdx0, LineIdx1, LineIdx2>>)},
        hp \in {<<FALSE, FALSE>>, <<TRUE, FALSE>>, <<FALSE, TRUE>>},
        r \in Counts(MaxRows), ns \in Counts(MaxSerial), np \in Counts(MaxParallel),
        st \in StartTokens, w \in Widths, t \in Templates}

----------------------------------------------------------------------------
(* main *)

Init ==
    /\ cli \in ParseRuns \cup GeometryRuns
    /\ pc = "start"
    /\ err = "none"
    /\ opened = FALSE
    /\ lineNo = 1
    /\ mem = EmptyMem
    /\ format = <<>>
    /\ i_ser = 0
    /\ i_par = 0
    /\ i_word = 0
    /\ created = <<>>
    /\ resolved = {}

Abort(why) == pc' = "abort" /\ err' = why

\* Lines 211-214 and 29: no --file gives the empty map; otherwise the file is
\* opened (an I/O error is returned by `?`) and its lines are read.
OpenInput ==
    /\ pc = "start"
    /\ IF ~cli.file.given THEN pc' = "args" /\ UNCHANGED <<err, opened>>
       ELSE IF ~cli.file.exists THEN Abort("io") /\ UNCHANGED opened
       ELSE pc' = "read" /\ opened' = TRUE /\ UNCHANGED err
    /\ UNCHANGED <<cli, lineNo, mem, format, i_ser, i_par, i_word, created, resolved>>

\* Lines 31-68: one iteration of the lines() loop.
ReadLine ==
    /\ pc = "read"
    /\ lineNo <= Len(cli.file.lines)
    /\ LET r == ProcessLine(cli.file.lines[lineNo], cli.swap_endianness, mem)
       IN  /\ mem' = r.mem
           /\ IF r.outcome = "ok"
              THEN lineNo' = lineNo + 1 /\ UNCHANGED <<pc, err>>
              ELSE Abort(r.outcome) /\ UNCHANGED lineNo
    /\ UNCHANGED <<cli, opened, format, i_ser, i_par, i_word, created, resolved>>

\* Line 69: Ok(mem)
ReturnMem ==
    /\ pc = "read"
    /\ lineNo > Len(cli.file.lines)
    /\ pc' = "args"
    /\ UNCHANGED <<cli, err, opened, lineNo, mem, format, i_ser, i_par, i_word,
                   created, resolved>>

\* Lines 222-226
ArgAddr(tok) == FromStrRadix16(TrimStartMatches0x(tok))

\* Lines 229-233: some argument is rejected by arg_usize / arg_addr.
ArgRejected ==
    \/ cli.n_rows < 0
    \/ cli.serial_banks < 0
    \/ cli.parallel_banks < 0
    \/ ArgAddr(cli.start_addr) = ParseFailed
    \/ cli.word_width < 0

\* Lines 229-265: the arguments, the assertion on the word width, the format
\* string, and the early returns of --help and --preview; then the head of
\* the output loop (no bank at all when a bank count is 0).
Setup ==
    /\ pc = "args"
    /\ IF ArgRejected THEN Abort("arg") /\ UNCHANGED format
       ELSE IF cli.word_width % 32 # 0 THEN Abort("width") /\ UNCHANGED format
       ELSE /\ format' = PrepareFormat(cli.template)
            /\ UNCHANGED err
            /\ IF cli.help \/ cli.preview THEN pc' = "done"
               ELSE IF cli.serial_banks = 0 \/ cli.parallel_banks = 0 THEN pc' = "done"
               ELSE pc' = "loop"
    /\ UNCHANGED <<cli, opened, lineNo, mem, i_ser, i_par, i_word, created, resolved>>

\* Lines 270-273: resolve the name of bank (i_ser, i_par) and create its file.
OpenBank ==
    /\ pc = "loop"
    /\ LET name == BankName(format, i_ser, i_par)
       IN  IF name = FmtError
           THEN Abort("template") /\ UNCHANGED <<created, resolved>>
           ELSE /\ resolved' = resolved \cup {<<i_ser, i_par>>}
                /\ IF name = <<>>
                   THEN Abort("io") /\ UNCHANGED created
                   ELSE /\ created' = Append(created, [bank |-> <<i_ser, i_par>>,
                                                       name |-> name, lines |-> <<>>])
                        /\ pc' = "rows"
                        /\ UNCHANGED err
    /\ i_word' = 0
    /\ UNCHANGED <<cli, opened, lineNo, mem, format, i_ser, i_par>>

\* Lines 275-283: one row of the current file: its label, its data field, and
\* the logical word indices handed to mem_val, in the order of the calls.
OutputRow(m, start_addr, s, p, w, n_rows, n_parallel, word_width) ==
    LET idx == Idx(s, p, w, n_rows, n_parallel, word_width)
        words_per_line == WordsPerLine(word_width)
    IN  [label |-> <<"@">> \o Hex8(w),
         data |-> RowWords(m, start_addr, idx, words_per_line),
         fetched |-> [j \in 1..words_per_line |-> idx + (words_per_line - j)]]

WriteRow ==
    /\ pc = "rows"
    /\ i_word < cli.n_rows
    /\ created' = [created EXCEPT ![Len(created)].lines =
                      Append(@, OutputRow(mem, ArgAddr(cli.start_addr), i_ser, i_par,
                                          i_word, cli.n_rows, cli.parallel_banks,
                                          cli.word_width))]
    /\ i_word' = i_word + 1
    /\ UNCHANGED <<cli, pc, err, opened, lineNo, mem, format, i_ser, i_par, resolved>>

\* Lines 268-269, 284-286: the file is complete; on to the next bank or the end.
CloseBank ==
    /\ pc = "rows"
    /\ i_word = cli.n_rows
    /\ IF i_par + 1 < cli.parallel_banks
       THEN i_par' = i_par + 1 /\ pc' = "loop" /\ UNCHANGED i_ser
       ELSE IF i_ser + 1 < cli.serial_banks
       THEN i_ser' = i_ser + 1 /\ i_par' = 0 /\ pc' = "loop"
       ELSE pc' = "done" /\ UNCHANGED <<i_ser, i_par>>
    /\ UNCHANGED <<cli, err, opened, lineNo, mem, format, i_word, created, resolved>>

Next ==
    \/ OpenInput
    \/ ReadLine
    \/ ReturnMem
    \/ Setup
    \/ OpenBank
    \/ WriteRow
    \/ CloseBank

Spec == Init /\ [][Next]_vars

\* The files on disk: File::create truncates, so a name holds what the last
\* bank created under it has written.
FileNames == {created[k].name : k \in 1..Len(created)}

FileContent(name) ==
    LET last == CHOOSE k \in 1..Len(created) :
                    /\ created[k].name = name
                    /\ \A j \in (k + 1)..Len(created) : created[j].name # name
    IN  created[last].lines

----------------------------------------------------------------------------
(* Vocabulary of the properties *)

ParseErrors == {"index", "parse", "length", "duplicate"}

\* mem_from_file has been called on an existing file and has ended.
ParseOver == opened /\ pc # "read"

ParseSucceeded == ParseOver /\ err \notin ParseErrors

\* A conversion run: neither --help nor --preview.
Converting == ~cli.help /\ ~cli.preview

InputLines == cli.file.lines

\* A token without one optional leading 0x.
StripOnePrefix(tok) ==
    IF Len(tok) >= 2 /\ tok[1] = "0" /\ tok[2] = "x"
    THEN SubSeq(tok, 3, Len(tok)) ELSE tok

\* The byte address an input line denotes: index * 4 for @index, the value
\* itself for an address; ParseFailed when the line denotes none.
LineByteAddr(l) ==
    LET v == Split(l)
    IN  IF Len(v) < 2 \/ v[1] = <<>> THEN ParseFailed
        ELSE IF v[1][1] = "@"
        THEN LET n == FromStrRadix16(Tail(v[1]))
             IN  IF n = ParseFailed THEN ParseFailed ELSE 4 * n
        ELSE FromStrRadix16(StripOnePrefix(v[1]))

\* A line of the input grammar: two tokens, an index or address, and a data
\* word of exactly 8 hexadecimal digits after an optional 0x.
GrammarLine(l) ==
    LET v == Split(l)
    IN  /\ Len(v) = 2
        /\ LineByteAddr(l) # ParseFailed
        /\ Len(StripOnePrefix(v[2])) = 8
        /\ \A i \in 1..8 : IsHexChar(StripOnePrefix(v[2])[i])

LineDataWord(l) == StripOnePrefix(Split(l)[2])

StartAddr == ArgAddr(cli.start_addr)

----------------------------------------------------------------------------
(* C1: interleaving and default fill *)

\* The word at a byte address of the memory image, 00000000 when absent.
ImageWord(addr) ==
    IF addr \in DOMAIN mem THEN mem[addr] ELSE <<"0","0","0","0","0","0","0","0">>

\* The data field the claim prescribes for row w of bank (s, p): the words at
\* start_addr + 4*(idx + i_sw) for i_sw = words_per_line-1 down to 0.
PrescribedData(s, p, w) ==
    LET words_per_line == cli.word_width \div 32
        words_in_parallel == words_per_line * cli.parallel_banks
        idx == p * words_per_line + words_in_parallel * w
               + words_in_parallel * cli.n_rows * s
    IN  [k \in 1..(8 * words_per_line) |->
            LET i_sw == (words_per_line - 1) - ((k - 1) \div 8)
            IN  ImageWord(StartAddr + 4 * (idx + i_sw))[((k - 1) % 8) + 1]]

\* C1: in every output written by bank (i_ser, i_par), the data field of row
\* i_word is the concatenation, for i_sw from words_per_line-1 down to 0, of
\* the word at byte address start_addr + 4*(idx + i_sw), with
\* idx = i_par*words_per_line + words_in_parallel*i_word
\*       + words_in_parallel*n_rows*i_ser; an absent address gives 00000000.
C1_RowsInterleaved ==
    \A k \in 1..Len(created) :
        \A r \in 1..Len(created[k].lines) :
            created[k].lines[r].data =
                PrescribedData(created[k].bank[1], created[k].bank[2], r - 1)

\* A finished 2 x 2 conversion of 64-bit rows in which some row holds a word
\* of the image next to a default-filled one.
C1_Witness ==
    /\ pc = "done"
    /\ Len(created) = 4
    /\ cli.word_width = 64
    /\ cli.n_rows = 2
    /\ \E k \in 1..4 : \E r \in 1..2 :
          /\ SubSeq(created[k].lines[r].data, 1, 8) = ZeroWord
          /\ SubSeq(created[k].lines[r].data, 9, 16) = WordE

----------------------------------------------------------------------------
(* C2: number of output files *)

\* C2 (as claimed): a conversion that completes with positive counts leaves
\* exactly n_serial * n_parallel files, each of n_rows lines, whatever the
\* template, as long as it resolves.
C2_AllFilesProduced ==
    (/\ pc = "done"
     /\ Converting
     /\ cli.n_rows >= 1 /\ cli.serial_banks >= 1 /\ cli.parallel_banks >= 1)
    => /\ Cardinality(FileNames) = cli.serial_banks * cli.parallel_banks
       /\ \A name \in FileNames : Len(FileContent(name)) = cli.n_rows

----------------------------------------------------------------------------
(* C3: duplicate entries *)

\* Lines i < j of the input denote the same byte address.
SameAddress(i, j) ==
    /\ i < j
    /\ LineByteAddr(InputLines[i]) # ParseFailed
    /\ LineByteAddr(InputLines[i]) = LineByteAddr(InputLines[j])

HasDuplicate ==
    \E i, j \in 1..Len(InputLines) : SameAddress(i, j)

\* What mem_from_file checks on a line before it inserts: two tokens or more,
\* a parseable address, and a data word of 8 characters.
Insertable(l) ==
    /\ Len(Split(l)) >= 2
    /\ LineByteAddr(l) # ParseFailed
    /\ Len(TrimStartMatches0x(Split(l)[2])) = 8

\* C3 (as claimed): an input with two lines of the same byte address fails
\* with the duplicate-entry error; an input without such lines never does.
C3_DuplicateAlwaysReported ==
    ParseOver =>
        /\ HasDuplicate => (pc = "abort" /\ err = "duplicate")
        /\ ~HasDuplicate => err # "duplicate"

\* C3 (amended): an input with two lines of the same byte address never
\* yields a memory image; the failure is the duplicate-entry error whenever
\* every line up to and including the second of the two passes the checks
\* made before the insertion, in all forms (@index / address); an input
\* without such lines never raises the duplicate-entry error.
C3_DuplicateReported ==
    ParseOver =>
        /\ HasDuplicate => (pc = "abort" /\ err \in ParseErrors)
        /\ (\E i, j \in 1..Len(InputLines) :
               /\ SameAddress(i, j)
               /\ \A k \in 1..j : Insertable(InputLines[k]))
           => err = "duplicate"
        /\ ~HasDuplicate => err # "duplicate"

\* The duplicate is found between an @index line and an address line.
C3_Witness ==
    /\ pc = "abort"
    /\ err = "duplicate"
    /\ InputLines = <<LineIdx1, LineAddr4>>

----------------------------------------------------------------------------
(* C4: word length *)

\* C4 (as claimed): a data token whose length after removing one optional 0x
\* is not 8 makes parsing fail, and every stored word has 8 characters.
C4_WordLengthValidated ==
    ParseSucceeded =>
        /\ \A i \in 1..Len(InputLines) :
              Len(StripOnePrefix(Split(InputLines[i])[2])) = 8
        /\ \A a \in DOMAIN mem : Len(mem[a]) = 8

----------------------------------------------------------------------------
(* C5: endianness swap *)

\* C5: while parsing has not failed, every line read so far is stored at its
\* address as c6 c7 c4 c5 c2 c3 c0 c1 of its data word c0..c7 when the swap
\* flag is set, and unchanged when it is not.
C5_SwapStored ==
    (opened /\ err \notin ParseErrors) =>
        \A i \in 1..(lineNo - 1) :
            LET c == TrimStartMatches0x(Split(InputLines[i])[2])
            IN  mem[LineByteAddr(InputLines[i])] =
                    IF cli.swap_endianness
                    THEN <<c[7], c[8], c[5], c[6], c[3], c[4], c[1], c[2]>>
                    ELSE c

\* Two lines have been read with the swap flag set.
C5_Witness ==
    /\ cli.swap_endianness
    /\ ParseSucceeded
    /\ InputLines = <<LineIdx0, LineIdx1>>
    /\ mem[0] = <<"6","7","4","5","2","3","0","1">>
    /\ mem[4] = <<"E","F","C","D","A","B","8","9">>

----------------------------------------------------------------------------
(* C6: round trip *)

\* The data fields of the only output, row for row.
OutputWords == [r \in 1..Len(created[1].lines) |-> created[1].lines[r].data]

\* The data words of the input, line for line.
InputWords == [i \in 1..Len(InputLines) |-> LineDataWord(InputLines[i])]

\* A finished single-bank conversion of an SLM input of R rows with
\* n_rows = R, the same word width (32) and no swap.
RoundTripRun ==
    /\ pc = "done"
    /\ Converting
    /\ opened
    /\ \A i \in 1..Len(InputLines) : GrammarLine(InputLines[i])
    /\ cli.serial_banks = 1
    /\ cli.parallel_banks = 1
    /\ cli.n_rows = Len(InputLines)
    /\ cli.word_width = 32
    /\ ~cli.swap_endianness

\* Line k (counted from 0) of the input is the word at start_addr + 4*k.
RowsFromStart ==
    \A i \in 1..Len(InputLines) :
        LineByteAddr(InputLines[i]) = StartAddr + 4 * (i - 1)

\* C6 (as claimed): the round trip reproduces the data words of any such
\* input, row for row.
C6_RoundTripAnyInput ==
    RoundTripRun => (Len(created) = 1 /\ OutputWords = InputWords)

\* C6 (amended): the round trip reproduces the data words row for row when
\* the input's rows are contiguous and in order from the start address, that
\* is, when its k-th line (from 0) denotes byte address start_addr + 4*k.
C6_RoundTrip ==
    (RoundTripRun /\ RowsFromStart) => (Len(created) = 1 /\ OutputWords = InputWords)

\* A two-row input starting at address 4 has been converted from start 4.
C6_Witness ==
    /\ RoundTripRun
    /\ RowsFromStart
    /\ StartAddr = 4
    /\ Len(InputLines) >= 2
    /\ OutputWords = <<WordC, WordE>>

----------------------------------------------------------------------------
(* C7: validation before file I/O *)

\* C7 (as claimed): a run that aborts on its arguments (a rejected number or
\* a word width that is no multiple of 32) has not opened the input file and
\* has created no output file.
C7_ValidationBeforeIO ==
    (pc = "abort" /\ err \in {"arg", "width"}) => (~opened /\ created = <<>>)

----------------------------------------------------------------------------
(* C8: malformed lines *)

\* A line outside the input grammar in the ways the claim lists: not exactly
\* two tokens, or a data token that is not 8 hexadecimal digits.
Malformed(l) ==
    LET v == Split(l)
    IN  \/ Len(v) # 2
        \/ Len(StripOnePrefix(v[2])) # 8
        \/ \E i \in 1..Len(StripOnePrefix(v[2])) : ~IsHexChar(StripOnePrefix(v[2])[i])

\* C8 (as claimed): when the input holds a malformed line, parsing fails, and
\* no output file is ever created.
C8_MalformedLineAborts ==
    (opened /\ \E i \in 1..Len(InputLines) : Malformed(InputLines[i]))
    => /\ ParseOver => (pc = "abort" /\ err \in ParseErrors)
       /\ created = <<>>

----------------------------------------------------------------------------
(* C9: template resolution *)

AllBanks == (0..(cli.serial_banks - 1)) \X (0..(cli.parallel_banks - 1))

CreatedBanks == {created[k].bank : k \in 1..Len(created)}

SomeLineWritten == \E k \in 1..Len(created) : created[k].lines # <<>>

\* C9 (as claimed): a run that fails on the template has created no output
\* file, and the names of all n_serial * n_parallel outputs are resolved
\* before the first line of the first output is written.
C9_AllNamesResolvedFirst ==
    /\ err = "template" => created = <<>>
    /\ SomeLineWritten => resolved = AllBanks

\* C9 (amended): a run that fails on the template fails when the first name
\* is resolved and has created no output file; the template is rewritten
\* into the format string before the loop, but each output's name is
\* resolved only when that output is created, so that the names resolved at
\* any moment are those of the outputs created so far.
C9_NameResolvedPerBank ==
    /\ err = "template" => (created = <<>> /\ resolved = {})
    /\ pc \in {"loop", "rows", "done"} =>
          /\ resolved = CreatedBanks
          /\ Converting /\ cli.serial_banks > 0 /\ cli.parallel_banks > 0
                => format = PrepareFormat(cli.template)

\* A run of several banks has failed on its template.
C9_Witness ==
    /\ pc = "abort"
    /\ err = "template"
    /\ cli.serial_banks = 2
    /\ cli.parallel_banks = 2
    /\ cli.n_rows = 2

----------------------------------------------------------------------------
(* C10: the interleaving is a bijection *)

\* Number of times the output loop has handed logical word index n to mem_val.
TimesFetched(n) ==
    Cardinality({t \in (1..Len(created)) \X (1..cli.n_rows) \X (1..(cli.word_width \div 32)) :
                    created[t[1]].lines[t[2]].fetched[t[3]] = n})

TotalWords ==
    cli.serial_banks * cli.parallel_banks * cli.n_rows * (cli.word_width \div 32)

\* C10: in a finished conversion with positive counts, every logical word
\* index of [0, n_serial*n_parallel*n_rows*words_per_line) has been fetched at
\* exactly one (bank, row, sub-word) position, and no index outside it.
C10_Bijection ==
    (/\ pc = "done"
     /\ Converting
     /\ cli.n_rows >= 1 /\ cli.serial_banks >= 1 /\ cli.parallel_banks >= 1)
    => /\ \A n \in 0..(TotalWords - 1) : TimesFetched(n) = 1
       /\ \A k \in 1..Len(created) : \A r \in 1..cli.n_rows :
             \A j \in 1..(cli.word_width \div 32) :
                created[k].lines[r].fetched[j] \in 0..(TotalWords - 1)

\* A finished conversion with more than one bank in each direction, more
\* than one row and more than one sub-word per row.
C10_Witness ==
    /\ pc = "done"
    /\ Converting
    /\ cli.serial_banks = 2
    /\ cli.parallel_banks = 2
    /\ cli.n_rows = 2
    /\ cli.word_width = 64
    /\ Len(created) = 4
    /\ created[4].lines[2].fetched = <<15, 14>>

====
